---- MODULE Spec2Model ----
(***************************************************************************)
(* Model of src/main.py: thumbnail generation with one producer process,   *)
(* one consumer process and one multiprocessing queue between them.        *)
(*                                                                         *)
(* File names are sequences of one-character strings so that endswith,     *)
(* lower and os.path.splitext are computed as the code computes them.      *)
(* A queue element is the Python tuple (filename, image), modelled as the  *)
(* pair <<filename, image>>, or None, modelled as the empty tuple.         *)
(***************************************************************************)
EXTENDS Integers, Sequences, FiniteSets, TLC

\* Largest number of entries in the producer directory.
MaxFiles == 3

----------------------------------------------------------------------------
\* Strings

UpperChars == <<"A","B","C","D","E","F","G","H","I","J","K","L","M",
                "N","O","P","Q","R","S","T","U","V","W","X","Y","Z">>
LowerChars == <<"a","b","c","d","e","f","g","h","i","j","k","l","m",
                "n","o","p","q","r","s","t","u","v","w","x","y","z">>

\* str.lower on one character
LowerChar(c) ==
    IF \E i \in 1..26 : UpperChars[i] = c
    THEN LowerChars[CHOOSE i \in 1..26 : UpperChars[i] = c]
    ELSE c

\* str.lower
Lower(s) == [i \in 1..Len(s) |-> LowerChar(s[i])]

\* str.endswith(suffix)
EndsWith(s, suf) ==
    /\ Len(s) >= Len(suf)
    /\ SubSeq(s, Len(s) - Len(suf) + 1, Len(s)) = suf

\* image_extensions = ('.jpg', '.jpeg', '.png', '.bmp', '.gif')
image_extensions ==
    { <<".","j","p","g">>, <<".","j","p","e","g">>, <<".","p","n","g">>,
      <<".","b","m","p">>, <<".","g","i","f">> }

\* Mutant: the name is not lowered before the comparison
IsImageFile_CaseSensitive(filename) ==
    \E ext \in image_extensions : EndsWith(filename, ext)

\* filename.lower().endswith(image_extensions)
IsImageFile(filename) ==
    \E ext \in image_extensions : EndsWith(Lower(filename), ext)

\* str.rfind('.') as a 1-based position, 0 when there is no dot
RFindDot(s) ==
    IF \E i \in 1..Len(s) : s[i] = "."
    THEN CHOOSE i \in 1..Len(s) :
            s[i] = "." /\ \A j \in (i+1)..Len(s) : s[j] # "."
    ELSE 0

\* os.path.splitext(filename)[0]: the part before the last dot, unless the
\* name has no dot or only leading dots before it
SplitextRoot(s) ==
    LET d == RFindDot(s)
    IN  IF d > 0 /\ \E k \in 1..(d-1) : s[k] # "."
        THEN SubSeq(s, 1, d - 1)
        ELSE s

ThumbSuffix == <<"-","t","h","u","m","b","n","a","i","l",".","j","p","g">>

\* new_filename = f"{name_without_ext}-thumbnail.jpg"
NewFilename(filename) == SplitextRoot(filename) \o ThumbSuffix

----------------------------------------------------------------------------
\* The files the producer directory may hold

A_JPG  == <<"a",".","j","p","g">>
A_PNG  == <<"a",".","p","n","g">>
B_PNG  == <<"B",".","P","N","G">>
C_TXT  == <<"c",".","t","x","t">>
DOTGIF == <<".","g","i","f">>

FileNames == {A_JPG, A_PNG, B_PNG, C_TXT, DOTGIF}

\* os.listdir returns each entry once, in arbitrary order
Listings ==
    { l \in UNION { [1..n -> FileNames] : n \in 0..MaxFiles } :
        \A i, j \in 1..Len(l) : i # j => l[i] # l[j] }

\* Files already in the consumer directory before the run
NOTES_TXT == <<"n","o","t","e","s",".","t","x","t">>
OldImage  == [src |-> <<>>]
OldA      == NewFilename(A_JPG)

InitOutDirs ==
    { [n \in {} |-> OldImage],
      [n \in {NOTES_TXT} |-> OldImage],
      [n \in {NOTES_TXT, OldA} |-> OldImage] }

\* The termination signal
None == <<>>

\* The thumbnail made from a file
Thumbnail(filename) == [src |-> filename]

\* [f for f in seq if keep(f)]
RECURSIVE FilterImages(_)
FilterImages(seq) ==
    IF seq = <<>> THEN <<>>
    ELSE IF IsImageFile(Head(seq))
         THEN <<Head(seq)>> \o FilterImages(Tail(seq))
         ELSE FilterImages(Tail(seq))

----------------------------------------------------------------------------
VARIABLES
    dirEntries,       \* entries of the producer directory, in listdir order
    outDir,           \* consumer directory: file name -> stored image
    queue,            \* mp.Queue contents, oldest first
    mpc,              \* main: position
    thumbnail_count,  \* main: the reported count
    ppc,              \* producer: position
    image_files,      \* producer: eligible files
    idx,              \* producer: index of the next file of image_files
    processed_count,  \* producer: success counter
    cpc,              \* consumer: position
    item,             \* consumer: the element last dequeued
    saved_count,      \* consumer: success counter
    putLog,           \* history: every element put, in order
    getLog,           \* history: every element got, in order
    failedTransform,  \* history: files whose transform raised
    failedSave,       \* history: files whose save raised, in order
    written           \* history: output names written during the run

vars == <<dirEntries, outDir, queue, mpc, thumbnail_count, ppc, image_files,
          idx, processed_count, cpc, item, saved_count, putLog, getLog,
          failedTransform, failedSave, written>>

mainVars == <<mpc, thumbnail_count>>
prodVars == <<ppc, image_files, idx, processed_count>>
consVars == <<cpc, item, saved_count>>
histProd == <<putLog, failedTransform>>
histCons == <<getLog, failedSave, written>>

Init ==
    /\ dirEntries \in Listings
    /\ outDir \in InitOutDirs
    /\ queue = <<>>
    /\ mpc = "makedirs"
    /\ thumbnail_count = 0
    /\ ppc = "idle"
    /\ image_files = <<>>
    /\ idx = 1
    /\ processed_count = 0
    /\ cpc = "idle"
    /\ item = None
    /\ saved_count = 0
    /\ putLog = <<>>
    /\ getLog = <<>>
    /\ failedTransform = {}
    /\ failedSave = <<>>
    /\ written = {}

----------------------------------------------------------------------------
\* The queue

\* Mutant: every element is sent twice
Put_Twice(q, x) == q \o <<x, x>>

\* Mutant: a stack instead of a queue
Put_Lifo(q, x) == <<x>> \o q

\* Mutant: a channel of capacity 1 that drops what does not fit
Put_Drop(q, x) == IF Len(q) >= 1 THEN q ELSE Append(q, x)

\* queue.put(x): mp.Queue() has no maxsize, put never blocks
Put(q, x) == Append(q, x)

\* queue.get() blocks while the queue is empty
CanGet(q) == q # <<>>

\* the element queue.get() returns
GetValue(q) == Head(q)

\* the queue after queue.get()
GetRest(q) == Tail(q)

\* A process that has exited, normally or with an unhandled exception
Terminated(pc) == pc \in {"done", "crashed"}

----------------------------------------------------------------------------
\* producer_process

\* Mutant: every directory entry is kept, whatever its extension
ProducerList_NoFilter ==
    /\ ppc = "list"
    /\ \E ok \in BOOLEAN :
         IF ok
         THEN /\ image_files' = dirEntries
              /\ ppc' = "loop"
         ELSE /\ image_files' = image_files
              /\ ppc' = "crashed"
    /\ UNCHANGED <<dirEntries, outDir, queue, mainVars, idx,
                   processed_count, consVars, histProd, histCons>>

\* lines 26-32: list the directory, keep the eligible names
ProducerList ==
    /\ ppc = "list"
    /\ \E ok \in BOOLEAN :
         IF ok
         THEN /\ image_files' = FilterImages(dirEntries)
              /\ ppc' = "loop"
         ELSE /\ image_files' = image_files
              /\ ppc' = "crashed"
    /\ UNCHANGED <<dirEntries, outDir, queue, mainVars, idx,
                   processed_count, consVars, histProd, histCons>>

\* Mutant: a file whose transform raised is counted as processed
ProducerTransformPut_CountFailed ==
    /\ ppc = "loop"
    /\ idx <= Len(image_files)
    /\ LET filename == image_files[idx]
       IN  \E ok \in BOOLEAN :
             IF ok
             THEN /\ queue' = Put(queue, <<filename, Thumbnail(filename)>>)
                  /\ putLog' = Append(putLog, <<filename, Thumbnail(filename)>>)
                  /\ ppc' = "count"
                  /\ UNCHANGED <<idx, failedTransform, processed_count>>
             ELSE /\ failedTransform' = failedTransform \cup {filename}
                  /\ idx' = idx + 1
                  /\ processed_count' = processed_count + 1
                  /\ UNCHANGED <<queue, putLog, ppc>>
    /\ UNCHANGED <<dirEntries, outDir, mainVars, image_files,
                   consVars, histCons>>

\* Mutant: the except branch also sends the termination signal
ProducerTransformPut_NoneOnError ==
    /\ ppc = "loop"
    /\ idx <= Len(image_files)
    /\ LET filename == image_files[idx]
       IN  \E ok \in BOOLEAN :
             IF ok
             THEN /\ queue' = Put(queue, <<filename, Thumbnail(filename)>>)
                  /\ putLog' = Append(putLog, <<filename, Thumbnail(filename)>>)
                  /\ ppc' = "count"
                  /\ UNCHANGED <<idx, failedTransform>>
             ELSE /\ failedTransform' = failedTransform \cup {filename}
                  /\ idx' = idx + 1
                  /\ queue' = Put(queue, None)
                  /\ putLog' = Append(putLog, None)
                  /\ UNCHANGED ppc
    /\ UNCHANGED <<dirEntries, outDir, mainVars, image_files,
                   processed_count, consVars, histCons>>

\* Mutant: the file is put on the queue before the step that raises
ProducerTransformPut_PutOnError ==
    /\ ppc = "loop"
    /\ idx <= Len(image_files)
    /\ LET filename == image_files[idx]
       IN  \E ok \in BOOLEAN :
             /\ queue' = Put(queue, <<filename, Thumbnail(filename)>>)
             /\ putLog' = Append(putLog, <<filename, Thumbnail(filename)>>)
             /\ IF ok
                THEN /\ ppc' = "count"
                     /\ UNCHANGED <<idx, failedTransform>>
                ELSE /\ failedTransform' = failedTransform \cup {filename}
                     /\ idx' = idx + 1
                     /\ UNCHANGED ppc
    /\ UNCHANGED <<dirEntries, outDir, mainVars, image_files,
                   processed_count, consVars, histCons>>

\* Mutant: an exception of the transform is not caught, the process dies
ProducerTransformPut_Uncaught ==
    /\ ppc = "loop"
    /\ idx <= Len(image_files)
    /\ LET filename == image_files[idx]
       IN  \E ok \in BOOLEAN :
             IF ok
             THEN /\ queue' = Put(queue, <<filename, Thumbnail(filename)>>)
                  /\ putLog' = Append(putLog, <<filename, Thumbnail(filename)>>)
                  /\ ppc' = "count"
                  /\ UNCHANGED <<idx, failedTransform>>
             ELSE /\ failedTransform' = failedTransform \cup {filename}
                  /\ ppc' = "crashed"
                  /\ UNCHANGED <<queue, putLog, idx>>
    /\ UNCHANGED <<dirEntries, outDir, mainVars, image_files,
                   processed_count, consVars, histCons>>

\* lines 35-60 and 64-65: one file is opened, converted and resized, then
\* put on the queue; any exception skips the file
ProducerTransformPut ==
    /\ ppc = "loop"
    /\ idx <= Len(image_files)
    /\ LET filename == image_files[idx]
       IN  \E ok \in BOOLEAN :
             IF ok
             THEN /\ queue' = Put(queue, <<filename, Thumbnail(filename)>>)
                  /\ putLog' = Append(putLog, <<filename, Thumbnail(filename)>>)
                  /\ ppc' = "count"
                  /\ UNCHANGED <<idx, failedTransform>>
             ELSE /\ failedTransform' = failedTransform \cup {filename}
                  /\ idx' = idx + 1
                  /\ UNCHANGED <<queue, putLog, ppc>>
    /\ UNCHANGED <<dirEntries, outDir, mainVars, image_files,
                   processed_count, consVars, histCons>>

\* lines 61-62
ProducerCount ==
    /\ ppc = "count"
    /\ processed_count' = processed_count + 1
    /\ idx' = idx + 1
    /\ ppc' = "loop"
    /\ UNCHANGED <<dirEntries, outDir, queue, mainVars, image_files,
                   consVars, histProd, histCons>>

\* Mutant: the termination signal is sent only when something was processed
ProducerPutNone_IfAny ==
    /\ ppc = "loop"
    /\ idx > Len(image_files)
    /\ processed_count > 0
    /\ queue' = Put(queue, None)
    /\ putLog' = Append(putLog, None)
    /\ ppc' = "done"
    /\ UNCHANGED <<dirEntries, outDir, mainVars, image_files, idx,
                   processed_count, consVars, failedTransform, histCons>>

\* lines 67-69: the termination signal, after the loop
ProducerPutNone ==
    /\ ppc = "loop"
    /\ idx > Len(image_files)
    /\ queue' = Put(queue, None)
    /\ putLog' = Append(putLog, None)
    /\ ppc' = "done"
    /\ UNCHANGED <<dirEntries, outDir, mainVars, image_files, idx,
                   processed_count, consVars, failedTransform, histCons>>

Producer ==
    \/ ProducerList
    \/ ProducerTransformPut
    \/ ProducerCount
    \/ ProducerPutNone

----------------------------------------------------------------------------
\* consumer_process

\* lines 80-85
ConsumerMakedirs ==
    /\ cpc = "makedirs"
    /\ \E ok \in BOOLEAN :
         cpc' = IF ok THEN "get" ELSE "crashed"
    /\ saved_count' = saved_count
    /\ UNCHANGED <<dirEntries, outDir, queue, mainVars, prodVars, item,
                   histProd, histCons>>

\* Mutant: the loop also ends when the queue is found empty after a get
ConsumerGet_IdleCheck ==
    /\ cpc = "get"
    /\ CanGet(queue)
    /\ item' = GetValue(queue)
    /\ queue' = GetRest(queue)
    /\ getLog' = Append(getLog, GetValue(queue))
    /\ cpc' = IF GetValue(queue) = None \/ GetRest(queue) = <<>>
              THEN "done" ELSE "save"
    /\ UNCHANGED <<dirEntries, outDir, mainVars, prodVars, saved_count,
                   histProd, failedSave, written>>

\* lines 88-98
ConsumerGet ==
    /\ cpc = "get"
    /\ CanGet(queue)
    /\ item' = GetValue(queue)
    /\ queue' = GetRest(queue)
    /\ getLog' = Append(getLog, GetValue(queue))
    /\ cpc' = IF GetValue(queue) = None THEN "done" ELSE "save"
    /\ UNCHANGED <<dirEntries, outDir, mainVars, prodVars, saved_count,
                   histProd, failedSave, written>>

\* What a failed save leaves of a file that was already there
Corrupt == [src |-> <<"?">>]

\* Mutant: saving recreates the directory and loses the other files
SaveFile_Wipe(dir, name, image) == [n \in {name} |-> image]

\* Mutant: an existing file is not overwritten
SaveFile_KeepExisting(dir, name, image) ==
    [n \in DOMAIN dir \cup {name} |-> IF n \in DOMAIN dir THEN dir[n] ELSE image]

\* the directory after thumbnail.save(save_path, 'JPEG') succeeded
SaveFile(dir, name, image) ==
    [n \in DOMAIN dir \cup {name} |-> IF n = name THEN image ELSE dir[n]]

\* Mutant: the counter is incremented whether or not the save raised
ConsumerSave_CountAlways ==
    /\ cpc = "save"
    /\ LET filename     == item[1]
           thumbnail    == item[2]
           new_filename == NewFilename(filename)
       IN  \E outcome \in {"saved", "raised", "raised_truncated"} :
             CASE outcome = "saved" ->
                    /\ outDir' = SaveFile(outDir, new_filename, thumbnail)
                    /\ written' = written \cup {new_filename}
                    /\ UNCHANGED failedSave
               [] outcome = "raised" ->
                    /\ failedSave' = Append(failedSave, filename)
                    /\ UNCHANGED <<outDir, written>>
               [] outcome = "raised_truncated" ->
                    /\ new_filename \in DOMAIN outDir
                    /\ outDir' = SaveFile(outDir, new_filename, Corrupt)
                    /\ failedSave' = Append(failedSave, filename)
                    /\ UNCHANGED written
    /\ saved_count' = saved_count + 1
    /\ cpc' = "get"
    /\ UNCHANGED <<dirEntries, queue, mainVars, prodVars, item,
                   histProd, getLog>>

\* Mutant: a failed save ends the loop
ConsumerSave_Abort ==
    /\ cpc = "save"
    /\ LET filename     == item[1]
           thumbnail    == item[2]
           new_filename == NewFilename(filename)
       IN  \E outcome \in {"saved", "raised", "raised_truncated"} :
             CASE outcome = "saved" ->
                    /\ outDir' = SaveFile(outDir, new_filename, thumbnail)
                    /\ saved_count' = saved_count + 1
                    /\ written' = written \cup {new_filename}
                    /\ cpc' = "get"
                    /\ UNCHANGED failedSave
               [] outcome = "raised" ->
                    /\ failedSave' = Append(failedSave, filename)
                    /\ cpc' = "done"
                    /\ UNCHANGED <<outDir, saved_count, written>>
               [] outcome = "raised_truncated" ->
                    /\ new_filename \in DOMAIN outDir
                    /\ outDir' = SaveFile(outDir, new_filename, Corrupt)
                    /\ failedSave' = Append(failedSave, filename)
                    /\ cpc' = "done"
                    /\ UNCHANGED <<saved_count, written>>
    /\ UNCHANGED <<dirEntries, queue, mainVars, prodVars, item,
                   histProd, getLog>>

\* lines 100-114: the save either succeeds, or raises before the file is
\* opened, or raises after an existing file was opened for writing
ConsumerSave ==
    /\ cpc = "save"
    /\ LET filename     == item[1]
           thumbnail    == item[2]
           new_filename == NewFilename(filename)
       IN  \E outcome \in {"saved", "raised", "raised_truncated"} :
             CASE outcome = "saved" ->
                    /\ outDir' = SaveFile(outDir, new_filename, thumbnail)
                    /\ saved_count' = saved_count + 1
                    /\ written' = written \cup {new_filename}
                    /\ UNCHANGED failedSave
               [] outcome = "raised" ->
                    /\ failedSave' = Append(failedSave, filename)
                    /\ UNCHANGED <<outDir, saved_count, written>>
               [] outcome = "raised_truncated" ->
                    /\ new_filename \in DOMAIN outDir
                    /\ outDir' = SaveFile(outDir, new_filename, Corrupt)
                    /\ failedSave' = Append(failedSave, filename)
                    /\ UNCHANGED <<saved_count, written>>
    /\ cpc' = "get"
    /\ UNCHANGED <<dirEntries, queue, mainVars, prodVars, item,
                   histProd, getLog>>

Consumer ==
    \/ ConsumerMakedirs
    \/ ConsumerGet
    \/ ConsumerSave

----------------------------------------------------------------------------
\* main

\* lines 128-137
MainMakedirs ==
    /\ mpc = "makedirs"
    /\ \E ok \in BOOLEAN :
         mpc' = IF ok THEN "startProducer" ELSE "crashed"
    /\ UNCHANGED <<dirEntries, outDir, queue, thumbnail_count, prodVars,
                   consVars, histProd, histCons>>

\* line 153
MainStartProducer ==
    /\ mpc = "startProducer"
    /\ ppc' = "list"
    /\ mpc' = "startConsumer"
    /\ UNCHANGED <<dirEntries, outDir, queue, thumbnail_count, image_files,
                   idx, processed_count, consVars, histProd, histCons>>

\* line 154
MainStartConsumer ==
    /\ mpc = "startConsumer"
    /\ cpc' = "makedirs"
    /\ mpc' = "joinProducer"
    /\ UNCHANGED <<dirEntries, outDir, queue, thumbnail_count, prodVars,
                   item, saved_count, histProd, histCons>>

\* line 158
MainJoinProducer ==
    /\ mpc = "joinProducer"
    /\ Terminated(ppc)
    /\ mpc' = "joinConsumer"
    /\ UNCHANGED <<dirEntries, outDir, queue, thumbnail_count, prodVars,
                   consVars, histProd, histCons>>

\* Mutant: main does not wait for the consumer
MainJoinConsumer_NoWait ==
    /\ mpc = "joinConsumer"
    /\ mpc' = "summary"
    /\ UNCHANGED <<dirEntries, outDir, queue, thumbnail_count, prodVars,
                   consVars, histProd, histCons>>

\* line 159
MainJoinConsumer ==
    /\ mpc = "joinConsumer"
    /\ Terminated(cpc)
    /\ mpc' = "summary"
    /\ UNCHANGED <<dirEntries, outDir, queue, thumbnail_count, prodVars,
                   consVars, histProd, histCons>>

\* len([f for f in os.listdir(consumer_dir) if f.endswith('-thumbnail.jpg')])
CountThumbnails(dir) ==
    Cardinality({ f \in DOMAIN dir : EndsWith(f, ThumbSuffix) })

\* lines 161-170
MainSummary ==
    /\ mpc = "summary"
    /\ \E ok \in BOOLEAN :
         IF ok
         THEN /\ thumbnail_count' = CountThumbnails(outDir)
              /\ mpc' = "done"
         ELSE /\ thumbnail_count' = thumbnail_count
              /\ mpc' = "crashed"
    /\ UNCHANGED <<dirEntries, outDir, queue, prodVars, consVars,
                   histProd, histCons>>

Main ==
    \/ MainMakedirs
    \/ MainStartProducer
    \/ MainStartConsumer
    \/ MainJoinProducer
    \/ MainJoinConsumer
    \/ MainSummary

----------------------------------------------------------------------------
Next ==
    \/ Main
    \/ Producer
    \/ Consumer

Spec == Init /\ [][Next]_vars

\* The operating system schedules each of the three processes whenever it
\* can take a step
FairSpec ==
    /\ Spec
    /\ WF_vars(Main)
    /\ WF_vars(Producer)
    /\ WF_vars(Consumer)

TypeOK ==
    /\ mpc \in {"makedirs", "startProducer", "startConsumer", "joinProducer",
                "joinConsumer", "summary", "done", "crashed"}
    /\ ppc \in {"idle", "list", "loop", "count", "done", "crashed"}
    /\ cpc \in {"idle", "makedirs", "get", "save", "done", "crashed"}
    /\ idx \in 1..(MaxFiles + 1)
    /\ processed_count \in 0..MaxFiles
    /\ saved_count \in 0..MaxFiles
    /\ Len(queue) <= MaxFiles + 1

----------------------------------------------------------------------------
\* Vocabulary of the properties

IsNone(e) == e = None
IsWorkItem(e) == e # None

\* The names of the work items of a log, in order
WorkNames(log) ==
    LET items == SelectSeq(log, IsWorkItem)
    IN  [i \in 1..Len(items) |-> items[i][1]]

NoneCount(log) == Cardinality({ i \in 1..Len(log) : IsNone(log[i]) })

PutNoneDone == \E i \in 1..Len(putLog) : IsNone(putLog[i])
GotNone     == \E i \in 1..Len(getLog) : IsNone(getLog[i])

\* The eligible files in enumeration order
Eligible == FilterImages(dirEntries)

\* How many eligible files the producer has attempted so far
Attempted == IF ppc = "count" THEN idx ELSE idx - 1

NotFailed(f) == f \notin failedTransform

InLoop(pc) == pc \in {"get", "save"}

MainPastJoins == mpc \in {"summary", "done"}

----------------------------------------------------------------------------
\* C1: the producer enqueues None at most once, nothing is enqueued after
\* it, and a producer that has finished has enqueued it exactly once, after
\* every work item.
C1_SentinelOnceAndLast ==
    /\ NoneCount(putLog) <= 1
    /\ \A i \in 1..Len(putLog) : IsNone(putLog[i]) => i = Len(putLog)
    /\ ppc = "done" =>
         /\ NoneCount(putLog) = 1
         /\ IsNone(putLog[Len(putLog)])

C1_Witness ==
    /\ ppc = "done"
    /\ Len(putLog) >= 3
    /\ IsNone(putLog[Len(putLog)])

\* C3: what the consumer has dequeued followed by what is still queued is
\* what the producer has enqueued, and the enqueued names are the eligible
\* files attempted so far, in enumeration order, without the failed ones;
\* a consumer that is done has dequeued exactly those names, in that order.
C3_FifoEndToEnd ==
    /\ getLog \o queue = putLog
    /\ WorkNames(putLog) =
         SelectSeq(SubSeq(Eligible, 1, Attempted), NotFailed)
    /\ (ppc = "done" /\ cpc = "done") =>
         WorkNames(getLog) = SelectSeq(Eligible, NotFailed)

C3_Witness ==
    /\ cpc = "done"
    /\ Len(WorkNames(getLog)) >= 2
    /\ failedTransform # {}

\* C4: every element on the queue is None or the pair of an eligible file
\* whose transform did not raise and of its thumbnail.
C4_OnlyGoodItemsOnChannel ==
    \A i \in 1..Len(queue) :
        \/ IsNone(queue[i])
        \/ /\ Len(queue[i]) = 2
           /\ queue[i][1] \notin failedTransform
           /\ \E k \in 1..Len(Eligible) : Eligible[k] = queue[i][1]
           /\ queue[i][2] = Thumbnail(queue[i][1])

C4_Witness ==
    /\ failedTransform # {}
    /\ Len(queue) >= 2
    /\ IsWorkItem(queue[1])

\* C5: when producer and consumer have both run to their end and no save
\* raised, the saved count is the number of files the producer transformed
\* and enqueued.
C5_NothingDropped ==
    (ppc = "done" /\ cpc = "done" /\ failedSave = <<>>) =>
        /\ saved_count = Len(WorkNames(putLog))
        /\ saved_count = processed_count

C5_Witness ==
    /\ ppc = "done"
    /\ cpc = "done"
    /\ failedSave = <<>>
    /\ saved_count >= 2

----------------------------------------------------------------------------
\* C2 as stated: the consumer has terminated exactly when it has dequeued
\* None, and once None has been enqueued the consumer eventually dequeues it
\* and terminates.
C2_AsStated ==
    /\ [](Terminated(cpc) <=> GotNone)
    /\ (PutNoneDone ~> (GotNone /\ Terminated(cpc)))

\* C2 amended: the consumer has returned from its loop exactly when it has
\* dequeued None; it leaves the loop only by the step that dequeues None;
\* once None has been enqueued, a consumer that is in its loop eventually
\* dequeues it and returns, and the consumer terminates in any case (one
\* whose os.makedirs raised has terminated without dequeuing anything).
C2_TerminatesOnSentinelOnly ==
    /\ [](cpc = "done" <=> GotNone)
    /\ [][(InLoop(cpc) /\ ~InLoop(cpc')) =>
            (cpc' = "done" /\ IsNone(item') /\ getLog' = Append(getLog, None))]_vars
    /\ ((PutNoneDone /\ InLoop(cpc)) ~> (cpc = "done" /\ GotNone))
    /\ (PutNoneDone ~> Terminated(cpc))

C2_Witness ==
    /\ cpc = "done"
    /\ GotNone
    /\ failedSave # <<>>
    /\ Len(getLog) >= 3

\* C6: once the producer is in its processing loop it eventually enqueues
\* None, whatever the number of eligible files and of failed transforms.
C6_SentinelAlwaysSent ==
    (ppc \in {"loop", "count"}) ~> (PutNoneDone /\ ppc = "done")

C6_Witness ==
    /\ ppc = "done"
    /\ PutNoneDone
    /\ Len(image_files) >= 2
    /\ Cardinality(failedTransform) = Len(image_files)

\* C7 as stated: when os.listdir raises in the producer, the consumer and
\* main both eventually terminate.
C7_ListFailureEndsRun ==
    (ppc = "crashed") ~> (Terminated(cpc) /\ Terminated(mpc))

\* C8 as stated: when the producer or the consumer dies of an unhandled
\* error, main eventually returns from both joins.
C8_DeathOfOneSideEndsRun ==
    (ppc = "crashed" \/ cpc = "crashed") ~> (mpc \in {"summary", "done", "crashed"})

\* C9: when the directory was listed, whatever transforms and saves fail,
\* the producer and the consumer eventually terminate and main reaches its
\* summary.
C9_RunCompletesDespiteItemFailures ==
    (ppc \in {"loop", "count"}) ~>
        (ppc = "done" /\ Terminated(cpc) /\ mpc = "summary")

C9_Witness ==
    /\ mpc = "summary"
    /\ ppc = "done"
    /\ cpc = "done"
    /\ failedTransform # {}
    /\ failedSave # <<>>

\* C10: whenever main is at or past its summary, the producer and the
\* consumer have both terminated.
C10_SummaryAfterBothTerminated ==
    MainPastJoins => (Terminated(ppc) /\ Terminated(cpc))

C10_Witness ==
    /\ mpc = "done"
    /\ thumbnail_count >= 2
    /\ saved_count >= 1

----------------------------------------------------------------------------
----------------------------------------------------------------------------
\* C12 as stated: every successful save yields an output file of its own,
\* so the number of distinct output files written during the run is the
\* consumer's saved count.
C12_OneFilePerSavedItem ==
    Cardinality(written) = saved_count

\* C13 as stated: when the run is over and no save raised, the count main
\* reports, the consumer's saved count and the producer's success count
\* all equal the number of eligible files whose transform succeeded.
C13_CountsAgree ==
    (mpc = "done" /\ ppc = "done" /\ cpc = "done" /\ failedSave = <<>>) =>
        /\ processed_count = Len(SelectSeq(Eligible, NotFailed))
        /\ saved_count = processed_count
        /\ thumbnail_count = saved_count

----------------------------------------------------------------------------
\* The output names of the items whose save was tried, with or without
\* success
TriedNames ==
    written \cup { NewFilename(failedSave[i]) : i \in 1..Len(failedSave) }

----------------------------------------------------------------------------
\* The dequeued work item the consumer holds and has not yet tried to save
Pending == IF cpc = "save" THEN 1 ELSE 0

\* C15: a save that raises leaves the consumer in its loop, about to
\* dequeue, with the saved counter, the queue and the dequeue history as
\* they were (the item is neither retried nor put back); the counter
\* changes only by a successful save, by exactly one; hence every dequeued
\* work item is tried once and the counter is the number of those that did
\* not raise.
C15_FailedSaveSkipsItem ==
    /\ [][(failedSave' # failedSave) =>
            /\ cpc = "save"
            /\ cpc' = "get"
            /\ failedSave' = Append(failedSave, item[1])
            /\ saved_count' = saved_count
            /\ queue' = queue
            /\ getLog' = getLog]_vars
    /\ [][(saved_count' # saved_count) =>
            /\ cpc = "save"
            /\ saved_count' = saved_count + 1
            /\ failedSave' = failedSave
            /\ outDir'[NewFilename(item[1])] = item[2]]_vars
    /\ [](saved_count + Len(failedSave) + Pending = Len(WorkNames(getLog)))

\* A save raised, and the consumer went on to save later items and to stop
\* on None
C15_Witness ==
    /\ cpc = "done"
    /\ Len(failedSave) = 1
    /\ saved_count >= 1
    /\ failedSave[1] = WorkNames(getLog)[1]

----------------------------------------------------------------------------
\* C16: between two iterations of its loop and when it has finished, the
\* producer's processed_count is the number of work items it has enqueued,
\* and a file whose transform raised is not counted: counted and failed
\* files together are the files attempted.  Inside an iteration, between
\* the put and the increment, the counter is one behind.
C16_CounterCountsEnqueues ==
    /\ ppc \in {"loop", "done"} =>
         /\ processed_count = Len(WorkNames(putLog))
         /\ processed_count + Cardinality(failedTransform) = Attempted
    /\ ppc = "count" =>
         processed_count + 1 = Len(WorkNames(putLog))

C16_Witness ==
    /\ ppc = "done"
    /\ processed_count >= 2
    /\ failedTransform # {}

----------------------------------------------------------------------------
\* C17: when the consumer is done, None is the last element it dequeued and
\* the only None it dequeued, and the queue is empty; from then on no step
\* dequeues, writes a file or changes the saved counter.
C17_SentinelIsLastRetrieved ==
    /\ [](cpc = "done" =>
            /\ queue = <<>>
            /\ getLog # <<>>
            /\ IsNone(getLog[Len(getLog)])
            /\ NoneCount(getLog) = 1
            /\ getLog = putLog)
    /\ [][cpc = "done" =>
            UNCHANGED <<cpc, item, saved_count, getLog, queue, outDir,
                        written, failedSave>>]_vars

C17_Witness ==
    /\ cpc = "done"
    /\ mpc = "done"
    /\ queue = <<>>
    /\ Len(getLog) = MaxFiles + 1

----------------------------------------------------------------------------
\* The allow-list of the specification, without the dot
AllowedExtensions ==
    { <<"j","p","g">>, <<"j","p","e","g">>, <<"p","n","g">>,
      <<"b","m","p">>, <<"g","i","f">> }

\* The same letter, in either case
SameLetter(c, d) ==
    \/ c = d
    \/ \E i \in 1..26 : {c, d} = {UpperChars[i], LowerChars[i]}

\* The name ends in a dot followed by an allowed extension, in any case
EndsInAllowedExtension(f) ==
    \E e \in AllowedExtensions :
        /\ Len(f) > Len(e)
        /\ f[Len(f) - Len(e)] = "."
        /\ \A k \in 1..Len(e) : SameLetter(f[Len(f) - Len(e) + k], e[k])

SeqRange(q) == { q[i] : i \in 1..Len(q) }

\* The files for which a transform was attempted
AttemptedFiles == SeqRange(WorkNames(putLog)) \cup failedTransform

\* C18: the files the producer keeps are the directory entries that end in
\* an allowed extension, in listing order; a transform is attempted only
\* for such entries and, when the producer is done, for all of them; every
\* output file written comes from such an entry.
C18_ExactlyEligibleAttempted ==
    /\ ppc \in {"loop", "count", "done"} =>
         image_files = SelectSeq(dirEntries, EndsInAllowedExtension)
    /\ \A f \in AttemptedFiles :
         f \in SeqRange(dirEntries) /\ EndsInAllowedExtension(f)
    /\ ppc = "done" =>
         AttemptedFiles = { f \in SeqRange(dirEntries) : EndsInAllowedExtension(f) }
    /\ \A n \in written :
         \E f \in SeqRange(dirEntries) :
             EndsInAllowedExtension(f) /\ n = NewFilename(f)

\* An upper-case name was attempted and a text file was skipped
C18_Witness ==
    /\ ppc = "done"
    /\ C_TXT \in SeqRange(dirEntries)
    /\ B_PNG \in SeqRange(WorkNames(putLog))
    /\ Len(image_files) = 2
    /\ AttemptedFiles = SeqRange(image_files)

----------------------------------------------------------------------------
\* C19: saved_count <= work items dequeued <= work items enqueued <= files
\* attempted <= eligible files, and what the consumer has dequeued is a
\* prefix of what the producer has enqueued.
C19_CountersChain ==
    /\ saved_count <= Len(WorkNames(getLog))
    /\ Len(WorkNames(getLog)) <= Len(WorkNames(putLog))
    /\ Len(WorkNames(putLog)) <= Attempted
    /\ Attempted <= Len(Eligible)
    /\ Len(getLog) <= Len(putLog)
    /\ \A i \in 1..Len(getLog) : getLog[i] = putLog[i]

\* Every inequality between the four counts is strict
C19_Witness ==
    /\ saved_count < Len(WorkNames(getLog))
    /\ Len(WorkNames(getLog)) < Len(WorkNames(putLog))
    /\ Len(WorkNames(putLog)) < Attempted
    /\ Len(WorkNames(getLog)) >= 1

----------------------------------------------------------------------------
\* The file was dequeued and its save has returned without raising
Saved(f) ==
    /\ f \in SeqRange(WorkNames(getLog))
    /\ f \notin SeqRange(failedSave)
    /\ ~(cpc = "save" /\ item[1] = f)

\* C20: when two different files with the same output name have both been
\* saved, the output file holds the thumbnail of the one enqueued later,
\* both are counted in saved_count, and fewer files were written than
\* saved_count says.
C20_LaterOfCollidingFilesWins ==
    LET w == WorkNames(putLog)
    IN  \A i, j \in 1..Len(w) :
          ( /\ i < j
            /\ NewFilename(w[i]) = NewFilename(w[j])
            /\ Saved(w[i])
            /\ Saved(w[j])
            /\ \A k \in (j+1)..Len(w) :
                 NewFilename(w[k]) = NewFilename(w[j]) =>
                     k > Len(WorkNames(getLog)) )
          =>
          ( /\ NewFilename(w[j]) \in DOMAIN outDir
            /\ outDir[NewFilename(w[j])] = Thumbnail(w[j])
            /\ saved_count = Cardinality({ f \in SeqRange(w) : Saved(f) })
            /\ saved_count >= 2
            /\ Cardinality(written) < saved_count )

\* a.jpg was enqueued before a.png, both were saved, over a thumbnail left
\* by an earlier run
C20_Witness ==
    /\ cpc = "done"
    /\ WorkNames(getLog) = <<A_JPG, A_PNG>>
    /\ failedSave = <<>>
    /\ saved_count = 2
    /\ written = {OldA}
    /\ outDir[OldA] = Thumbnail(A_PNG)
    /\ NOTES_TXT \in DOMAIN outDir

====
